---- MODULE Spec2Model ----
(***************************************************************************)
(* The Primo interface board (interface_board.ino): the hall-sensor        *)
(* decoder check_button, the packet builder and double send of loop(),     *)
(* the replay/feedback phase, and the radio interrupt handler checkRadio.  *)
(*                                                                         *)
(* The LEDs (write_led) and the serial trace (debug_printf) are left out:  *)
(* nothing in the program reads them back.                                 *)
(*                                                                         *)
(* packet is the 32-byte array of the source.  A store                     *)
(* packet[current_element++] = v with current_element > 31 lands in the    *)
(* static storage that follows the array; which object lives there is the  *)
(* linker's choice, so such a store is recorded in oob (index |-> value)   *)
(* and is not given an effect on any other variable of the model.          *)
(***************************************************************************)
EXTENDS Integers, Sequences, FiniteSets, TLC

VARIABLES
    pc,               \* position of the main program: setup / loop()
    PIND0,            \* bit 0 of PIND, the user-button input (PRIMO_BBIT)
    port,             \* port[g]: what gpioExp<g>.readPort() returns, g in 1..4
    packet,           \* static char packet[32]
    oob,              \* stores of this build that fell outside packet
    primo_random,     \* static long primo_random
    current_element,  \* static char current_element
    terminated,       \* int terminated
    button,           \* static char button (loop counter)
    led_fn_terminate, \* char led_fn_terminate
    movement_delay,   \* int movement_delay
    delayed,          \* milliseconds passed to delay() in this replay phase
    sent,             \* frames handed to radio.startWrite in this gesture
    pending,          \* frames handed to the radio whose IRQ has not come yet
    powered,          \* TRUE while the radio is powered up
    ackMessageCount,  \* static uint32_t ackMessageCount
    event,            \* flags radio.whatHappened gave the handler that ran last
    calls,            \* radio calls that handler made; both are dropped at the
                      \*   next step of the main program
    arg,              \* argument of an isolated check_button call
    ret               \* its return value

vars == << pc, PIND0, port, packet, oob, primo_random, current_element,
           terminated, button, led_fn_terminate, movement_delay, delayed,
           sent, pending, powered, ackMessageCount, event, calls, arg, ret >>

(***************************************************************************)
(* Program constants                                                       *)
(***************************************************************************)
PRIMO_MAGNET_NONE     == 0
PRIMO_MAGNET_FORWARD  == 1
PRIMO_MAGNET_RIGHT    == 2
PRIMO_MAGNET_LEFT     == 3
PRIMO_MAGNET_FUNCTION == 4
PRIMO_MAGNET_ERR      == 5

PRIMO_NRF24L01_MAX_PACKET_SIZE == 32

\* long primo_id = PRIMO_ID: 0xDE1D8758 as the 32-bit signed long it is held in.
PRIMO_ID == -568490152

PRIMO_COMMAND_STOP    == 0
PRIMO_COMMAND_FORWARD == 1
PRIMO_COMMAND_LEFT    == 2
PRIMO_COMMAND_RIGHT   == 3

PRIMO_MAX_BUTTON == 28

FirstMovementElement == 8   \* current_element = 8
ReplayMaxButton      == 12  \* for (button = 1; button <= 12; button++)
FunctionElements     == 4   \* function_element <= 4
FunctionBase         == 12  \* check_button(12 + function_element)
ForwardDelay         == 4500
TurnDelay            == 3000

(***************************************************************************)
(* Bounds of the model                                                     *)
(***************************************************************************)
MaxAck     == 1    \* acknowledgement payloads are drawn from 0..MaxAck
MaxPending == 2    \* frames the radio holds at once
MaxArg     == 28   \* isolated check_button calls take a button in 0..MaxArg
MaxRow     == 2    \* rows and function rows offered when the radio
MaxAux     == 2    \*   interrupt is interleaved with the main loop

\* What the operator puts in slots 1..12, as the port words of expanders
\* 1..3 (a nibble per slot, lowest nibble first; F L R as a non-inverted
\* row decodes them):
\*   0x0000 four empty slots             0x2222 four function blocks
\*   0x6503 F, empty, L, R               0x5353 F, L, F, L
\* The last row is the figure-of-eight: slots 1..11 F,L,F,L,F,L,F,R,F,R,F
\* and slot 12 empty (0x5353, 0x5656, 0x0363).
Rows ==
    << << 8738, 8738, 0 >>,          \* 8 functions, then empty
       << 21331, 8738, 25859 >>,     \* F,L,F,L, 4 functions, F, empty
       << 8738, 8738, 8738 >>,       \* 12 functions
       << 21331, 21331, 21331 >>,    \* 12 movements
       << 0, 0, 0 >>,                \* nothing
       << 25859, 0, 0 >>,            \* F, empty
       << 21331, 25859, 0 >>,        \* F,L,F,L,R, empty
       << 21331, 21331, 25859 >>,    \* 8 movements, F, empty
       << 21331, 22102, 867 >> >>    \* figure-of-eight

\* What the operator puts in the function row, slots 13..16 (expander 4).
AuxWords == << 25859, 0, 21331, 8738 >>

BoardsOf(nrows, naux) ==
    { << Rows[i][1], Rows[i][2], Rows[i][3], AuxWords[j] >> :
         i \in 1..nrows, j \in 1..naux }

Boards == BoardsOf(Len(Rows), Len(AuxWords))

FewBoards == BoardsOf(MaxRow, MaxAux)

\* Port words for isolated check_button calls: nibble n at position pos,
\* nibble f at the three other positions.
DecodeWords ==
    { IF pos = 0 THEN n + (f * 16) + (f * 256) + (f * 4096)
      ELSE IF pos = 1 THEN f + (n * 16) + (f * 256) + (f * 4096)
      ELSE IF pos = 2 THEN f + (f * 16) + (n * 256) + (f * 4096)
      ELSE f + (f * 16) + (f * 256) + (n * 4096) :
         pos \in 0..3, n \in 0..15, f \in 0..15 }

\* random() values drawn at boot.
Identities == { 305419896, 2147483647 }   \* 0x12345678, 0x7FFFFFFF

(***************************************************************************)
(* Bytes and bits                                                          *)
(***************************************************************************)
Pow(b, n) == b ^ n

\* (x >> s) & 0x0F
Nibble(x, s) == (x \div Pow(2, s)) % 16

\* Byte k of a 32-bit long as memcpy lays it out (little-endian, two's
\* complement: \div rounds down and % is non-negative).
ByteOf(x, k) == (x \div Pow(256, k)) % 256

(***************************************************************************)
(* check_button: the hall-sensor decoder                                   *)
(***************************************************************************)
\* switch (button_to_check): which expander is read; 0 for default:
ExpanderOf(button_to_check) ==
    IF button_to_check \in 1..4 THEN 1
    ELSE IF button_to_check \in 5..8 THEN 2
    ELSE IF button_to_check \in 9..12 THEN 3
    ELSE IF button_to_check \in 13..16 THEN 4
    ELSE 0

\* Faulty variant of ShiftOf: the nibbles counted from the button number
\* itself, not from button - 1.
ShiftOf_OffByOne(button_to_check) == 4 * (button_to_check % 4)

\* ... and how far hall_response is shifted before & 0x0F.
ShiftOf(button_to_check) == 4 * ((button_to_check - 1) % 4)

\* invert_magnet = 1 in cases 5, 6, 7 and 8.
invert_magnet(button_to_check) == IF button_to_check \in 5..8 THEN 1 ELSE 0

\* twisted = 1 in case 8.
twisted(button_to_check) == IF button_to_check = 8 THEN 1 ELSE 0

\* The 4-bit value the first switch leaves in button; default: gives 0.
RawNibble(button_to_check, hall) ==
    IF ExpanderOf(button_to_check) = 0 THEN 0
    ELSE Nibble(hall[ExpanderOf(button_to_check)], ShiftOf(button_to_check))

\* Faulty variant of Untwist: bit 2 shifted down by two places.
Untwist_ShiftTwo(b) == (b % 2) + (((b \div 2) % 2) * 4) + ((b \div 4) % 2)

\* (button & 0x01) + ((button & 0x02) << 1) + ((button & 0x04) >> 1)
Untwist(b) == (b % 2) + (((b \div 2) % 2) * 4) + (((b \div 4) % 2) * 2)

\* Faulty variant of CorrectedCode: the nibble is not masked to its low
\* three bits.
CorrectedCode_NoMask(button_to_check, hall) ==
    LET b == RawNibble(button_to_check, hall)
    IN  IF twisted(button_to_check) = 1 THEN Untwist(b) ELSE b

\* button & 0x07, then the untwist when twisted is set.
CorrectedCode(button_to_check, hall) ==
    LET b == RawNibble(button_to_check, hall) % 8
    IN  IF twisted(button_to_check) = 1 THEN Untwist(b) ELSE b

\* Faulty variant of MagnetOf: codes without a block report an error.
MagnetOf_ErrDefault(code, inv) ==
    CASE code = 2 -> PRIMO_MAGNET_FUNCTION
      [] code = 3 -> IF inv = 1 THEN PRIMO_MAGNET_RIGHT ELSE PRIMO_MAGNET_FORWARD
      [] code = 4 -> IF inv = 1 THEN PRIMO_MAGNET_FUNCTION ELSE PRIMO_MAGNET_NONE
      [] code = 5 -> PRIMO_MAGNET_LEFT
      [] code = 6 -> IF inv = 1 THEN PRIMO_MAGNET_FORWARD ELSE PRIMO_MAGNET_RIGHT
      [] code = 7 -> PRIMO_MAGNET_ERR
      [] OTHER    -> PRIMO_MAGNET_NONE

\* switch (button): "convert to button codes".
MagnetOf(code, inv) ==
    CASE code = 2 -> IF inv = 1 THEN PRIMO_MAGNET_FUNCTION ELSE PRIMO_MAGNET_FUNCTION
      [] code = 3 -> IF inv = 1 THEN PRIMO_MAGNET_RIGHT ELSE PRIMO_MAGNET_FORWARD
      [] code = 4 -> IF inv = 1 THEN PRIMO_MAGNET_FUNCTION ELSE PRIMO_MAGNET_NONE
      [] code = 5 -> IF inv = 1 THEN PRIMO_MAGNET_LEFT ELSE PRIMO_MAGNET_LEFT
      [] code = 6 -> IF inv = 1 THEN PRIMO_MAGNET_FORWARD ELSE PRIMO_MAGNET_RIGHT
      [] code = 7 -> PRIMO_MAGNET_NONE
      [] OTHER    -> PRIMO_MAGNET_NONE

check_button(button_to_check, hall) ==
    MagnetOf(CorrectedCode(button_to_check, hall), invert_magnet(button_to_check))

(***************************************************************************)
(* The packet builder of loop()                                            *)
(*                                                                         *)
(* A builder state b is a record [packet, oob, current_element,            *)
(* terminated]; the operators below are the statements of the scan loop    *)
(* and are used both by the actions and to compute whole builds.           *)
(***************************************************************************)
\* packet[current_element++] = v
Store(b, v) ==
    IF b.current_element < PRIMO_NRF24L01_MAX_PACKET_SIZE
    THEN [b EXCEPT !.packet[b.current_element] = v,
                   !.current_element = @ + 1]
    ELSE [b EXCEPT !.oob = (b.current_element :> v) @@ b.oob,
                   !.current_element = @ + 1]

\* The three movement cases shared by the outer and the inner switch.
IsMovement(m) ==
    m \in { PRIMO_MAGNET_FORWARD, PRIMO_MAGNET_RIGHT, PRIMO_MAGNET_LEFT }

\* Faulty variant of CommandOf: the two turns exchanged.
CommandOf_TurnsSwapped(m) ==
    CASE m = PRIMO_MAGNET_FORWARD -> PRIMO_COMMAND_FORWARD
      [] m = PRIMO_MAGNET_RIGHT   -> PRIMO_COMMAND_LEFT
      [] m = PRIMO_MAGNET_LEFT    -> PRIMO_COMMAND_RIGHT

CommandOf(m) ==
    CASE m = PRIMO_MAGNET_FORWARD -> PRIMO_COMMAND_FORWARD
      [] m = PRIMO_MAGNET_RIGHT   -> PRIMO_COMMAND_RIGHT
      [] m = PRIMO_MAGNET_LEFT    -> PRIMO_COMMAND_LEFT

\* Faulty variant of FunctionCase: an empty function slot stored as a Stop.
FunctionCase_StopForEmpty(b, m) ==
    IF m \in { PRIMO_MAGNET_FORWARD, PRIMO_MAGNET_RIGHT, PRIMO_MAGNET_LEFT }
    THEN Store(b, CommandOf(m))
    ELSE Store(b, PRIMO_COMMAND_STOP)

\* Inner switch: a movement is stored, default: stores nothing.
FunctionCase(b, m) == IF IsMovement(m) THEN Store(b, CommandOf(m)) ELSE b

\* for (function_element = 1; function_element <= 4; function_element++)
RECURSIVE ExpandFunction(_, _, _)
ExpandFunction(b, function_element, hall) ==
    IF function_element > FunctionElements THEN b
    ELSE ExpandFunction(
             FunctionCase(b, check_button(FunctionBase + function_element, hall)),
             function_element + 1, hall)

\* Faulty variant of ScanCase: a function block is also stored itself, as
\* its magnet code, before its expansion.
ScanCase_FunctionMarker(b, m, hall) ==
    CASE IsMovement(m)             -> Store(b, CommandOf(m))
      [] m = PRIMO_MAGNET_FUNCTION ->
            ExpandFunction(Store(b, PRIMO_MAGNET_FUNCTION), 1, hall)
      [] m = PRIMO_MAGNET_NONE     -> [b EXCEPT !.terminated = 1]
      [] OTHER                     -> b

\* Outer switch, taken when !terminated.
ScanCase(b, m, hall) ==
    CASE IsMovement(m)             -> Store(b, CommandOf(m))
      [] m = PRIMO_MAGNET_FUNCTION -> ExpandFunction(b, 1, hall)
      [] m = PRIMO_MAGNET_NONE     -> [b EXCEPT !.terminated = 1]
      [] OTHER                     -> b

\* Faulty variant of ScanButton: after the end of the sequence a slot is
\* still decoded, and stored when it holds a block.
ScanButton_DecodesBlocks(b, btn, hall) ==
    IF b.terminated = 0 \/ check_button(btn, hall) # PRIMO_MAGNET_NONE
    THEN ScanCase(b, check_button(btn, hall), hall)
    ELSE Store(b, PRIMO_COMMAND_STOP)

\* Body of for (button = 1; button <= PRIMO_MAX_BUTTON; button++).
ScanButton(b, btn, hall) ==
    IF b.terminated = 0
    THEN ScanCase(b, check_button(btn, hall), hall)
    ELSE Store(b, PRIMO_COMMAND_STOP)

\* while (current_element < PRIMO_MAX_BUTTON) packet[current_element++] = STOP
RECURSIVE PadStops(_)
PadStops(b) ==
    IF b.current_element < PRIMO_MAX_BUTTON
    THEN PadStops(Store(b, PRIMO_COMMAND_STOP))
    ELSE b

\* Faulty variant of StartBuild: current_element is not set back to 8 but
\* left after the commands the buffer already holds.
StartBuild_Resume(pk) ==
    [packet |-> pk, oob |-> << >>,
     current_element |->
        IF \E i \in FirstMovementElement..(PRIMO_NRF24L01_MAX_PACKET_SIZE - 1) :
               pk[i] = PRIMO_COMMAND_STOP
        THEN CHOOSE i \in FirstMovementElement..(PRIMO_NRF24L01_MAX_PACKET_SIZE - 1) :
               /\ pk[i] = PRIMO_COMMAND_STOP
               /\ \A j \in FirstMovementElement..(i - 1) : pk[j] # PRIMO_COMMAND_STOP
        ELSE PRIMO_NRF24L01_MAX_PACKET_SIZE,
     terminated |-> 0]

\* current_element = 8; terminated = 0; (oob restarts with the build)
StartBuild(pk) ==
    [packet |-> pk, oob |-> << >>,
     current_element |-> FirstMovementElement, terminated |-> 0]

\* The scan loop from button btn on, then the padding.
RECURSIVE ScanFrom(_, _, _)
ScanFrom(b, btn, hall) ==
    IF btn > PRIMO_MAX_BUTTON THEN b
    ELSE ScanFrom(ScanButton(b, btn, hall), btn + 1, hall)

BuildPacket(pk, hall) == PadStops(ScanFrom(StartBuild(pk), 1, hall))

(***************************************************************************)
(* initialise_packet                                                       *)
(***************************************************************************)
\* packet[8..23]: the figure-of-eight test commands.
TestCommands ==
    << PRIMO_COMMAND_FORWARD, PRIMO_COMMAND_LEFT,  PRIMO_COMMAND_FORWARD,
       PRIMO_COMMAND_LEFT,    PRIMO_COMMAND_FORWARD, PRIMO_COMMAND_LEFT,
       PRIMO_COMMAND_FORWARD, PRIMO_COMMAND_RIGHT, PRIMO_COMMAND_FORWARD,
       PRIMO_COMMAND_RIGHT,   PRIMO_COMMAND_FORWARD, PRIMO_COMMAND_RIGHT,
       PRIMO_COMMAND_FORWARD, PRIMO_COMMAND_RIGHT, PRIMO_COMMAND_FORWARD,
       PRIMO_COMMAND_LEFT >>

\* Faulty variant of initialise_packet: the identity copied most
\* significant byte first.
initialise_packet_BigEndian(random) ==
    [i \in 0..(PRIMO_NRF24L01_MAX_PACKET_SIZE - 1) |->
        IF i < 4 THEN ByteOf(PRIMO_ID, i)
        ELSE IF i < 8 THEN ByteOf(random, 7 - i)
        ELSE IF i < 24 THEN TestCommands[i - 7]
        ELSE PRIMO_COMMAND_STOP]

initialise_packet(random) ==
    [i \in 0..(PRIMO_NRF24L01_MAX_PACKET_SIZE - 1) |->
        IF i < 4 THEN ByteOf(PRIMO_ID, i)
        ELSE IF i < 8 THEN ByteOf(random, i - 4)
        ELSE IF i < 24 THEN TestCommands[i - 7]
        ELSE PRIMO_COMMAND_STOP]

\* radio.startWrite(packet, PRIMO_NRF24L01_MAX_PACKET_SIZE): the bytes handed over.
FrameOf(pk) == [i \in 0..(PRIMO_NRF24L01_MAX_PACKET_SIZE - 1) |-> pk[i]]

(***************************************************************************)
(* The replay / feedback phase of loop()                                   *)
(***************************************************************************)
\* A replay state r is a record [led_fn_terminate, delayed].
\* Body of the first for (function_element ...) loop of case FUNCTION.
ReplayFunctionElement(r, function_element, hall) ==
    IF r.led_fn_terminate = 0
    THEN IF check_button(FunctionBase + function_element, hall) = PRIMO_MAGNET_NONE
         THEN [r EXCEPT !.led_fn_terminate = 1]
         ELSE IF check_button(FunctionBase + function_element, hall)
                     = PRIMO_MAGNET_FORWARD
              THEN [r EXCEPT !.delayed = @ + ForwardDelay]
              ELSE [r EXCEPT !.delayed = @ + TurnDelay]
    ELSE r

RECURSIVE ReplayFunction(_, _, _)
ReplayFunction(r, function_element, hall) ==
    IF function_element > FunctionElements THEN r
    ELSE ReplayFunction(ReplayFunctionElement(r, function_element, hall),
                        function_element + 1, hall)

\* movement_delay after the switch of the replay loop, given what it was.
ReplayDelayOf(m, old) ==
    CASE m = PRIMO_MAGNET_FORWARD  -> ForwardDelay
      [] m = PRIMO_MAGNET_RIGHT    -> TurnDelay
      [] m = PRIMO_MAGNET_LEFT     -> TurnDelay
      [] m = PRIMO_MAGNET_FUNCTION -> 0
      [] OTHER                     -> old

(***************************************************************************)
(* The program                                                             *)
(***************************************************************************)
Init ==
    /\ pc = "setup"
    /\ PIND0 = 1
    /\ port = [g \in 1..4 |-> 0]
    /\ packet = [i \in 0..(PRIMO_NRF24L01_MAX_PACKET_SIZE - 1) |-> 0]
    /\ oob = << >>
    /\ primo_random = 0
    /\ current_element = 0
    /\ terminated = 0
    /\ button = 0
    /\ led_fn_terminate = 0
    /\ movement_delay = 0
    /\ delayed = 0
    /\ sent = << >>
    /\ pending = 0
    /\ powered = TRUE
    /\ ackMessageCount = 0
    /\ event = {}
    /\ calls = << >>
    /\ arg = 0
    /\ ret = -1

\* setup(): initialise_packet() with the value random() returns.
Setup ==
    /\ pc = "setup"
    /\ \E r \in Identities :
          /\ primo_random' = r
          /\ packet' = initialise_packet(r)
    /\ pc' = "loop"
    /\ event' = {}
    /\ calls' = << >>
    /\ UNCHANGED << PIND0, port, oob, current_element, terminated, button,
                    led_fn_terminate, movement_delay, delayed, sent, pending,
                    powered, ackMessageCount, arg, ret >>

\* loop() is entered: the records kept of the previous pass are dropped.
\* (for (i = 1; i <= 16; i++) write_led(i, 0);)
LoopStart ==
    /\ pc = "loop"
    /\ oob' = << >>
    /\ sent' = << >>
    /\ delayed' = 0
    /\ pc' = "wait_press"
    /\ event' = {}
    /\ calls' = << >>
    /\ UNCHANGED << PIND0, port, packet, primo_random, current_element,
                    terminated, button, led_fn_terminate, movement_delay,
                    pending, powered, ackMessageCount, arg, ret >>

\* The operator arranges the blocks as board and presses the user-button
\* (the bit reads 0 while it is held down).
Press(board) ==
    /\ pc = "wait_press"
    /\ PIND0 = 1
    /\ PIND0' = 0
    /\ port' = board
    /\ event' = {}
    /\ calls' = << >>
    /\ UNCHANGED << pc, packet, oob, primo_random, current_element,
                    terminated, button, led_fn_terminate, movement_delay,
                    delayed, sent, pending, powered, ackMessageCount, arg, ret >>

\* The operator lets the user-button go.
Release ==
    /\ pc = "wait_release"
    /\ PIND0 = 0
    /\ PIND0' = 1
    /\ event' = {}
    /\ calls' = << >>
    /\ UNCHANGED << pc, port, packet, oob, primo_random, current_element,
                    terminated, button, led_fn_terminate, movement_delay,
                    delayed, sent, pending, powered, ackMessageCount, arg, ret >>

\* while (PRIMO_BBIT) { ... } is left when the bit reads 0.
WaitPress ==
    /\ pc = "wait_press"
    /\ PIND0 = 0
    /\ pc' = "wait_release"
    /\ event' = {}
    /\ calls' = << >>
    /\ UNCHANGED << PIND0, port, packet, oob, primo_random, current_element,
                    terminated, button, led_fn_terminate, movement_delay,
                    delayed, sent, pending, powered, ackMessageCount, arg, ret >>

\* Faulty variant of WaitRelease: the build starts without waiting for the
\* user-button to be let go.
WaitRelease_NoWait ==
    /\ pc = "wait_release"
    /\ current_element' = FirstMovementElement
    /\ terminated' = 0
    /\ button' = 1
    /\ pc' = "scan"
    /\ event' = {}
    /\ calls' = << >>
    /\ UNCHANGED << PIND0, port, packet, oob, primo_random, led_fn_terminate,
                    movement_delay, delayed, sent, pending, powered,
                    ackMessageCount, arg, ret >>

\* while (!PRIMO_BBIT) {} is left when the bit reads 1; then
\* current_element = 8; terminated = 0; button = 1.
WaitRelease ==
    /\ pc = "wait_release"
    /\ PIND0 # 0
    /\ current_element' = StartBuild(packet).current_element
    /\ terminated' = StartBuild(packet).terminated
    /\ button' = 1
    /\ pc' = "scan"
    /\ event' = {}
    /\ calls' = << >>
    /\ UNCHANGED << PIND0, port, packet, oob, primo_random, led_fn_terminate,
                    movement_delay, delayed, sent, pending, powered,
                    ackMessageCount, arg, ret >>

Builder ==
    [packet |-> packet, oob |-> oob,
     current_element |-> current_element, terminated |-> terminated]

\* One iteration of for (button = 1; button <= PRIMO_MAX_BUTTON; button++).
Scan ==
    /\ pc = "scan"
    /\ button' = button + 1
    /\ pc' = IF button + 1 <= PRIMO_MAX_BUTTON THEN "scan" ELSE "pad"
    /\ \E b \in { ScanButton(Builder, button, port) } :
           /\ packet' = b.packet
           /\ oob' = b.oob
           /\ current_element' = b.current_element
           /\ terminated' = b.terminated
    /\ event' = {}
    /\ calls' = << >>
    /\ UNCHANGED << PIND0, port, primo_random, led_fn_terminate,
                    movement_delay, delayed, sent, pending, powered,
                    ackMessageCount, arg, ret >>

\* "we have filled up the packet with commands, add stops to the end"
Pad ==
    /\ pc = "pad"
    /\ pc' = "send1"
    /\ \E b \in { PadStops(Builder) } :
           /\ packet' = b.packet
           /\ oob' = b.oob
           /\ current_element' = b.current_element
    /\ event' = {}
    /\ calls' = << >>
    /\ UNCHANGED << PIND0, port, primo_random, terminated, button,
                    led_fn_terminate, movement_delay, delayed, sent, pending,
                    powered, ackMessageCount, arg, ret >>

\* radio.startWrite(packet, PRIMO_NRF24L01_MAX_PACKET_SIZE)
StartWrite ==
    /\ sent' = Append(sent, FrameOf(packet))
    /\ pending' = IF pending < MaxPending THEN pending + 1 ELSE pending
    /\ powered' = TRUE

Send1 ==
    /\ pc = "send1"
    /\ StartWrite
    /\ pc' = "send2"
    /\ event' = {}
    /\ calls' = << >>
    /\ UNCHANGED << PIND0, port, packet, oob, primo_random, current_element,
                    terminated, button, led_fn_terminate, movement_delay,
                    delayed, ackMessageCount, arg, ret >>

\* Faulty variant of Send2: the second startWrite is held back until the
\* radio has reported on the first.
Send2_AfterCompletion ==
    /\ pc = "send2"
    /\ pending = 0
    /\ StartWrite
    /\ terminated' = 0
    /\ led_fn_terminate' = 0
    /\ button' = 1
    /\ pc' = "replay"
    /\ event' = {}
    /\ calls' = << >>
    /\ UNCHANGED << PIND0, port, packet, oob, primo_random, current_element,
                    movement_delay, delayed, ackMessageCount, arg, ret >>

\* The second startWrite, then terminated = 0; led_fn_terminate = 0; button = 1.
Send2 ==
    /\ pc = "send2"
    /\ StartWrite
    /\ terminated' = 0
    /\ led_fn_terminate' = 0
    /\ button' = 1
    /\ pc' = "replay"
    /\ event' = {}
    /\ calls' = << >>
    /\ UNCHANGED << PIND0, port, packet, oob, primo_random, current_element,
                    movement_delay, delayed, ackMessageCount, arg, ret >>

\* One iteration of for (button = 1; button <= 12; button++) of the replay.
Replay ==
    /\ pc = "replay"
    /\ button' = button + 1
    /\ pc' = IF button + 1 <= ReplayMaxButton THEN "replay" ELSE "loop"
    /\ IF terminated = 0
       THEN LET m == check_button(button, port)
                r == IF m = PRIMO_MAGNET_FUNCTION
                     THEN ReplayFunction([led_fn_terminate |-> 0,
                                          delayed |-> delayed], 1, port)
                     ELSE [led_fn_terminate |-> led_fn_terminate,
                           delayed |-> delayed]
                d == ReplayDelayOf(m, movement_delay)
            IN  /\ terminated' = IF m = PRIMO_MAGNET_NONE THEN 1 ELSE 0
                /\ led_fn_terminate' = r.led_fn_terminate
                /\ movement_delay' = d
                /\ delayed' = r.delayed + d
       ELSE UNCHANGED << terminated, led_fn_terminate, movement_delay, delayed >>
    /\ event' = {}
    /\ calls' = << >>
    /\ UNCHANGED << PIND0, port, packet, oob, primo_random, current_element,
                    sent, pending, powered, ackMessageCount, arg, ret >>

\* Faulty variant of checkRadio: a failed transmission is sent again.
checkRadio_Retry(tx, fail, rx, payload) ==
    /\ calls' = (IF tx THEN << "powerDown" >> ELSE << >>)
                   \o (IF rx THEN << "read" >> ELSE << >>)
    /\ powered' = IF tx THEN FALSE ELSE powered
    /\ ackMessageCount' = IF rx THEN payload ELSE ackMessageCount
    /\ sent' = IF fail THEN Append(sent, packet) ELSE sent
    /\ UNCHANGED packet

\* Faulty variant of checkRadio: the radio is powered down on every event.
checkRadio_AlwaysDown(tx, fail, rx, payload) ==
    /\ calls' = << "powerDown" >> \o (IF rx THEN << "read" >> ELSE << >>)
    /\ powered' = FALSE
    /\ ackMessageCount' = IF rx THEN payload ELSE ackMessageCount
    /\ UNCHANGED << sent, packet >>

\* Faulty variant of checkRadio: the acknowledgement payload is read into
\* the first bytes of the command region instead of ackMessageCount.
checkRadio_ReadIntoPacket(tx, fail, rx, payload) ==
    /\ calls' = (IF tx \/ fail THEN << "powerDown" >> ELSE << >>)
                   \o (IF rx THEN << "read" >> ELSE << >>)
    /\ powered' = IF tx \/ fail THEN FALSE ELSE powered
    /\ packet' = IF rx THEN [packet EXCEPT ![8] = payload] ELSE packet
    /\ UNCHANGED << sent, ackMessageCount >>

\* checkRadio(): radio.whatHappened(tx, fail, rx) reports what raised the
\* interrupt; payload is what radio.read() delivers when rx is set.
checkRadio(tx, fail, rx, payload) ==
    /\ calls' = (IF tx \/ fail THEN << "powerDown" >> ELSE << >>)
                   \o (IF rx THEN << "read" >> ELSE << >>)
    /\ powered' = IF tx \/ fail THEN FALSE ELSE powered
    /\ ackMessageCount' = IF rx THEN payload ELSE ackMessageCount
    /\ UNCHANGED << sent, packet >>

\* The radio raises its interrupt: a frame it holds has gone out (tx) or was
\* given up (fail), and/or an acknowledgement payload has come in (rx).
RadioInterrupt ==
    /\ pc # "setup"
    /\ \E tx, fail, rx \in BOOLEAN, payload \in 0..MaxAck :
          /\ tx \/ fail \/ rx
          /\ ~(tx /\ fail)
          /\ (tx \/ fail) => pending > 0
          /\ ~rx => payload = 0
          /\ event' = (IF tx THEN { "tx" } ELSE {})
                         \cup (IF fail THEN { "fail" } ELSE {})
                         \cup (IF rx THEN { "rx" } ELSE {})
          /\ checkRadio(tx, fail, rx, payload)
          /\ pending' = IF tx \/ fail THEN pending - 1 ELSE pending
    /\ UNCHANGED << pc, PIND0, port, oob, primo_random, current_element,
                    terminated, button, led_fn_terminate, movement_delay,
                    delayed, arg, ret >>

\* loop() without the radio interrupt.
MainLoop(boards) ==
    \/ Setup
    \/ LoopStart
    \/ \E board \in boards : Press(board)
    \/ Release
    \/ WaitPress
    \/ WaitRelease
    \/ Scan
    \/ Pad
    \/ Send1
    \/ Send2
    \/ Replay

\* The whole program: the main loop with the interrupt handler running
\* between any two of its steps.
Next == MainLoop(FewBoards) \/ RadioInterrupt

Spec == Init /\ [][Next]_vars

\* The statements loop() executes from the release of the user-button to
\* the next wait: the processor keeps executing them, whether or not the
\* radio ever raises its interrupt and whatever the operator does.
Cycle ==
    \/ WaitRelease
    \/ Scan
    \/ Pad
    \/ Send1
    \/ Send2
    \/ Replay
    \/ LoopStart

\* Three boards for the runs checked for progress: eight function blocks
\* over F,L,F,L (32 commands), an empty board, and twelve movements with a
\* Forward in slot 13.
LiveBoards ==
    { << Rows[b[1]][1], Rows[b[1]][2], Rows[b[1]][3], AuxWords[b[2]] >> :
         b \in { << 1, 3 >>, << 5, 2 >>, << 4, 1 >> } }

NextLive == MainLoop(LiveBoards) \/ RadioInterrupt

\* The whole program with the processor never stopping inside loop(); no
\* fairness is put on the radio interrupt or on the operator.
LiveSpec == Init /\ [][NextLive]_vars /\ WF_vars(Cycle)

\* The main loop alone, over every board.
NextFrames == MainLoop(Boards)

FrameSpec == Init /\ [][NextFrames]_vars

\* check_button called on its own: any button number; one expander reads a
\* word of DecodeWords and the three others read its complement.
InitDecode ==
    /\ pc = "call"
    /\ PIND0 = 1
    /\ \E w \in DecodeWords, e \in 1..4 :
          port = [g \in 1..4 |-> IF g = e THEN w ELSE 65535 - w]
    /\ packet = [i \in 0..(PRIMO_NRF24L01_MAX_PACKET_SIZE - 1) |-> 0]
    /\ oob = << >>
    /\ primo_random = 0
    /\ current_element = 0
    /\ terminated = 0
    /\ button = 0
    /\ led_fn_terminate = 0
    /\ movement_delay = 0
    /\ delayed = 0
    /\ sent = << >>
    /\ pending = 0
    /\ powered = TRUE
    /\ ackMessageCount = 0
    /\ event = {}
    /\ calls = << >>
    /\ arg \in 0..MaxArg
    /\ ret = -1

CallCheckButton ==
    /\ pc = "call"
    /\ ret' = check_button(arg, port)
    /\ pc' = "returned"
    /\ event' = {}
    /\ calls' = << >>
    /\ UNCHANGED << PIND0, port, packet, oob, primo_random, current_element,
                    terminated, button, led_fn_terminate, movement_delay,
                    delayed, sent, pending, powered, ackMessageCount, arg >>

NextDecode == CallCheckButton

DecodeSpec == InitDecode /\ [][NextDecode]_vars

(***************************************************************************)
(* Properties                                                              *)
(***************************************************************************)
\* The command region of frame f: bytes 8..31.
CommandRegion == 8..31

\* What check_button returns for the twelve primary slots of the board.
PrimaryMagnets == [s \in 1..12 |-> check_button(s, port)]

\* ... and for the function row, slots 13..16.
AuxMagnets == [e \in 1..4 |-> check_button(12 + e, port)]

\* The wire value of a movement: Forward = 1, Left = 2, Right = 3.
WireValue(m) ==
    IF m = PRIMO_MAGNET_FORWARD THEN 1
    ELSE IF m = PRIMO_MAGNET_LEFT THEN 2
    ELSE IF m = PRIMO_MAGNET_RIGHT THEN 3
    ELSE 0

NoGapsIn(f) ==
    \A i \in CommandRegion, j \in CommandRegion :
        (i < j /\ f[i] = 0) => f[j] = 0

\* C1 -- No gaps: in every frame handed to the radio, no Stop byte of the
\* command region bytes[8..32) is followed at a higher index by a non-Stop
\* byte.
C1_NoGaps == \A n \in 1..Len(sent) : NoGapsIn(sent[n])

\* C2 -- Capacity: the commands the builder appends to a frame number at
\* most 24; it stops appending at capacity.  (While the scan has not
\* terminated every store is an appended command, so current_element - 8
\* is the number appended.)
C2_Capacity ==
    (pc \in { "scan", "pad" } /\ terminated = 0) => current_element - 8 <= 24

\* C3 -- Full rebuild: the frame sent after a gesture is a function of that
\* gesture's slot readings and the boot-time header alone: it is the frame
\* the same readings give in the first gesture after boot.
C3_HistoryIndependent ==
    \A n \in 1..Len(sent) :
        sent[n] = FrameOf(BuildPacket(initialise_packet(primo_random), port).packet)

\* The first empty slot among the primary slots is slot k.
FirstNoneAt(k) ==
    /\ PrimaryMagnets[k] = PRIMO_MAGNET_NONE
    /\ \A j \in 1..(k - 1) : PrimaryMagnets[j] # PRIMO_MAGNET_NONE

NoPrimaryFunction ==
    \A s \in 1..12 : PrimaryMagnets[s] # PRIMO_MAGNET_FUNCTION

\* C4 -- Prefix encoding: when no primary slot decodes as Function and the
\* first empty primary slot is slot k, the frame handed to the radio holds
\* the wire values of slots 1..k-1 in bytes 8..8+k-2 and Stop in every byte
\* from 8+k-1 through 31.
C4_PrefixEncoding ==
    \A n \in 1..Len(sent), k \in 1..12 :
        (NoPrimaryFunction /\ FirstNoneAt(k)) =>
            \A i \in CommandRegion :
                sent[n][i] = IF i < 8 + k - 1 THEN WireValue(PrimaryMagnets[i - 7])
                             ELSE 0

\* The figure-of-eight board has been sent as 1,2,1,2,1,2,1,3,1,3,1 and zeros.
C4_Witness ==
    /\ Len(sent) = 2
    /\ port = << 21331, 22102, 867, 0 >>
    /\ NoPrimaryFunction /\ FirstNoneAt(12)
    /\ \A i \in 8..18 : sent[2][i] = << 1, 2, 1, 2, 1, 2, 1, 3, 1, 3, 1 >>[i - 7]
    /\ \A i \in 19..31 : sent[2][i] = 0

\* The movements of the function row in slot order, as wire values: empty
\* slots and function blocks dropped, nothing else changed.
Expansion ==
    LET row == << AuxMagnets[1], AuxMagnets[2], AuxMagnets[3], AuxMagnets[4] >>
        kept == SelectSeq(row, LAMBDA m : WireValue(m) # 0)
    IN  [j \in 1..Len(kept) |-> WireValue(kept[j])]

\* The byte a build has stored at index i, inside the array or past it.
StoredAt(pk, ob, i) == IF i \in DOMAIN pk THEN pk[i] ELSE ob[i]

\* C5 -- Function expansion: a primary slot that decodes as Function
\* contributes, at its position in the sequence, exactly the Forward / Left
\* / Right decodes of slots 13..16 in that order; an empty or function
\* block in the function row contributes no byte and does not terminate
\* the sequence.
C5_FunctionExpansion ==
    [][ (/\ pc = "scan"
         /\ terminated = 0
         /\ button <= 12
         /\ PrimaryMagnets[button] = PRIMO_MAGNET_FUNCTION)
        => (/\ terminated' = 0
            /\ current_element' = current_element + Len(Expansion)
            /\ \A j \in 1..Len(Expansion) :
                  StoredAt(packet', oob', current_element + j - 1) = Expansion[j]
            /\ \A i \in DOMAIN packet :
                  (i < current_element \/ i >= current_element') =>
                      packet'[i] = packet[i]) ]_vars

\* Slot 1 held a function block, the function row F, empty, L, R: the scan
\* of slot 1 has stored 1, 2, 3 and goes on.
C5_Witness ==
    /\ pc = "scan" /\ button = 2 /\ terminated = 0
    /\ PrimaryMagnets[1] = PRIMO_MAGNET_FUNCTION
    /\ AuxMagnets = << PRIMO_MAGNET_FORWARD, PRIMO_MAGNET_NONE,
                       PRIMO_MAGNET_LEFT, PRIMO_MAGNET_RIGHT >>
    /\ packet[8] = 1 /\ packet[9] = 2 /\ packet[10] = 3
    /\ current_element = 11

\* C6 -- Only slots 1..12 are scanned as sequence positions: when slots
\* 1..12 all decode to Forward / Left / Right the frame holds exactly those
\* 12 commands in bytes[8..20) and Stop in bytes[20..32), whatever slots
\* 13..16 hold.
C6_OnlyPrimaryScanned ==
    \A n \in 1..Len(sent) :
        (\A s \in 1..12 : WireValue(PrimaryMagnets[s]) # 0) =>
            /\ \A i \in 8..19 : sent[n][i] = WireValue(PrimaryMagnets[i - 7])
            /\ \A i \in 20..31 : sent[n][i] = 0

\* Bytes 0..3 are 0xDE1D8758 and bytes 4..7 the value drawn at boot, both
\* least significant byte first.
HeaderOk(f) ==
    /\ f[0] = 88 /\ f[1] = 135 /\ f[2] = 29 /\ f[3] = 222
    /\ f[4] + (256 * f[5]) + (65536 * f[6]) + (16777216 * f[7]) = primo_random

C7_HeaderState ==
    pc # "setup" =>
        /\ primo_random \in Identities
        /\ HeaderOk(packet)
        /\ \A n \in 1..Len(sent) :
              DOMAIN sent[n] = 0..31 /\ HeaderOk(sent[n])

\* C7 -- Header frame condition: after boot and after any sequence of
\* gestures bytes[0..4) of the frame are the protocol tag and bytes[4..8)
\* the identity drawn at boot; no step after boot writes an index below 8
\* or changes the identity, and every send hands over exactly 32 bytes.
C7_Header ==
    /\ [] C7_HeaderState
    /\ [][ pc # "setup" =>
             /\ primo_random' = primo_random
             /\ \A i \in 0..7 : packet'[i] = packet[i] ]_vars

\* A frame has been sent by a build that ran past the end of the array.
C7_Witness ==
    /\ Len(sent) = 2
    /\ oob # << >>
    /\ primo_random = 2147483647
    /\ sent[2][4] = 255 /\ sent[2][7] = 127

\* The low three bits of the nibble of slot a in its expander's port word;
\* 0 for a button number that names no slot.
OwnCode(a) ==
    IF a \in 1..16
    THEN (port[((a - 1) \div 4) + 1] \div Pow(16, (a - 1) % 4)) % 8
    ELSE 0

\* Bit 0 kept, bits 1 and 2 exchanged.
SwapTable == << 0, 1, 4, 5, 2, 3, 6, 7 >>

\* The code after the correction: slot 8 is the twisted one.
ClaimedCode(a) == IF a = 8 THEN SwapTable[OwnCode(a) + 1] ELSE OwnCode(a)

\* C8 -- Fail-safe decode: for every button number, in 1..16 or not, and
\* every port value, check_button returns None when the corrected code is
\* 0, 1 or 7, and it never returns the Error value.
C8_FailSafe ==
    pc = "returned" =>
        /\ ret # PRIMO_MAGNET_ERR
        /\ ClaimedCode(arg) \in { 0, 1, 7 } => ret = PRIMO_MAGNET_NONE

\* A slot whose three hall bits are all set has been decoded.
C8_Witness ==
    /\ pc = "returned"
    /\ arg \in 1..16
    /\ ClaimedCode(arg) = 7
    /\ ret = PRIMO_MAGNET_NONE

\* The decode tables, indexed by code + 1.
NonInvertedTable ==
    << PRIMO_MAGNET_NONE, PRIMO_MAGNET_NONE, PRIMO_MAGNET_FUNCTION,
       PRIMO_MAGNET_FORWARD, PRIMO_MAGNET_NONE, PRIMO_MAGNET_LEFT,
       PRIMO_MAGNET_RIGHT, PRIMO_MAGNET_NONE >>

InvertedTable ==
    << PRIMO_MAGNET_NONE, PRIMO_MAGNET_NONE, PRIMO_MAGNET_FUNCTION,
       PRIMO_MAGNET_RIGHT, PRIMO_MAGNET_FUNCTION, PRIMO_MAGNET_LEFT,
       PRIMO_MAGNET_FORWARD, PRIMO_MAGNET_NONE >>

\* C9 -- Decode tables: for slots 1..4 and 9..16 check_button maps code 2
\* to Function, 3 to Forward, 4 to None, 5 to Left, 6 to Right and every
\* other code to None; for slots 5..7 it maps 2 to Function, 3 to Right,
\* 4 to Function, 5 to Left, 6 to Forward and every other code to None.
C9_DecodeTables ==
    pc = "returned" =>
        /\ arg \in (1..4) \cup (9..16) => ret = NonInvertedTable[OwnCode(arg) + 1]
        /\ arg \in 5..7 => ret = InvertedTable[OwnCode(arg) + 1]

\* Slot 6, of the inverted row, has decoded code 6 as Forward.
C9_Witness ==
    /\ pc = "returned"
    /\ arg = 6
    /\ OwnCode(arg) = 6
    /\ ret = PRIMO_MAGNET_FORWARD

\* C10 -- Double send: each gesture hands the radio exactly two frames,
\* both the 32 bytes the build has left in packet, both after the build and
\* before the replay phase, whatever radio events are delivered.
C10_DoubleSend ==
    /\ pc \in { "setup", "wait_press", "wait_release", "scan", "pad", "send1" }
          => Len(sent) = 0
    /\ pc = "send2" => Len(sent) = 1
    /\ pc = "replay" => Len(sent) = 2
    /\ pc = "loop" => Len(sent) \in { 0, 2 }
    /\ \A n \in 1..Len(sent) : DOMAIN sent[n] = 0..31 /\ sent[n] = packet

\* Both frames are out, a transmit event has been handled (the radio is
\* powered down with one frame still pending) and a payload has come in.
C10_Witness ==
    /\ pc = "replay"
    /\ Len(sent) = 2
    /\ sent[1] = sent[2]
    /\ pending = 1
    /\ ~powered
    /\ ackMessageCount = 1

\* The handler invocation that made the radio calls c called name.
HandlerCalled(c, name) == \E n \in 1..Len(c) : c[n] = name

\* C11 (event handling): a step in which checkRadio runs powers the radio
\* down exactly when the event reports a sent or a failed transmission,
\* reads into ackMessageCount exactly when it reports received data, and
\* changes nothing else: the main program's variables and the frames handed
\* to the radio stay as they are, the radio stays as it was unless powered
\* down, and ackMessageCount keeps its value unless read into.
C11_EventHandling ==
    [][ (event' # {}) =>
          /\ HandlerCalled(calls', "powerDown")
                <=> ("tx" \in event' \/ "fail" \in event')
          /\ HandlerCalled(calls', "read") <=> ("rx" \in event')
          /\ Len(calls') = Cardinality({ n \in { "powerDown", "read" } :
                                            HandlerCalled(calls', n) })
          /\ powered' = IF "tx" \in event' \/ "fail" \in event'
                        THEN FALSE ELSE powered
          /\ ("rx" \notin event') => ackMessageCount' = ackMessageCount
          /\ UNCHANGED << pc, PIND0, port, packet, oob, primo_random,
                          current_element, terminated, button,
                          led_fn_terminate, movement_delay, delayed, sent,
                          arg, ret >> ]_vars

\* The handler has just run on an event that reports received data only,
\* while a frame is still with the radio: it read the payload and left the
\* radio powered.
C11_Witness ==
    /\ event = { "rx" }
    /\ calls = << "read" >>
    /\ pending > 0
    /\ powered
    /\ ackMessageCount = MaxAck

\* C12 (trigger gating): the wait for the release is entered only from the
\* wait for the press with the user-button read as pressed, and the build is
\* entered only from the wait for the release with the user-button read as
\* released; as long as the user-button stays pressed in the second wait the
\* program stays there, the frame buffer is not written and nothing is
\* handed to the radio; frames are handed to the radio only by the two sends
\* that follow a build, and the buffer is written only at boot and by a
\* build.
C12_TriggerGating ==
    /\ [] (pc \in { "wait_press", "wait_release" } => sent = << >>)
    /\ [][ /\ (pc' = "wait_release" /\ pc # "wait_release")
                 => (pc = "wait_press" /\ PIND0 = 0)
           /\ (pc' = "scan" /\ pc # "scan")
                 => (pc = "wait_release" /\ PIND0 = 1)
           /\ (pc = "wait_release" /\ PIND0' = 0)
                 => /\ pc' = "wait_release"
                    /\ UNCHANGED << packet, oob, current_element, sent >>
           /\ (Len(sent') > Len(sent)) => pc \in { "send1", "send2" }
           /\ (packet' # packet) => pc \in { "setup", "scan", "pad" } ]_vars

\* The user-button is held down in the second wait of a later gesture and
\* the handler has just run: still nothing has been handed to the radio.
C12_Witness ==
    /\ pc = "wait_release"
    /\ PIND0 = 0
    /\ event # {}
    /\ ~powered
    /\ sent = << >>

\* C13 (idempotent build): whatever the frame buffer held before a gesture,
\* once the gesture's frame is built, building again from that buffer with
\* the same slot readings gives the same 32 bytes, header and command
\* region, and they are the bytes handed to the radio.
C13_IdempotentBuild ==
    (pc \in { "send1", "send2", "replay" } \/ (pc = "loop" /\ sent # << >>)) =>
        /\ BuildPacket(packet, port).packet = packet
        /\ \A n \in 1..Len(sent) :
              sent[n] = FrameOf(BuildPacket(sent[n], port).packet)

\* A gesture with nothing in the primary slots has been built and sent from
\* a buffer that held twelve expanded functions: the frame keeps bytes of
\* the earlier one, and building again with the same readings gives it back.
C13_Witness ==
    /\ pc = "loop"
    /\ Len(sent) = 2
    /\ sent[2] = FrameOf(packet)
    /\ packet[8] = PRIMO_COMMAND_STOP
    /\ packet[28] # PRIMO_COMMAND_STOP
    /\ BuildPacket(packet, port).packet = packet

\* The Command discriminants.
Commands ==
    { PRIMO_COMMAND_STOP, PRIMO_COMMAND_FORWARD, PRIMO_COMMAND_LEFT,
      PRIMO_COMMAND_RIGHT }

\* C14 (valid commands): in every state, in the middle of a build too,
\* every byte 8..31 of the frame buffer is one of Stop (0), Forward (1),
\* Left (2), Right (3), and so is every byte 8..31 of a frame handed to the
\* radio.
C14_ValidCommands ==
    /\ \A i \in CommandRegion : packet[i] \in Commands
    /\ \A n \in 1..Len(sent) : \A i \in CommandRegion : sent[n][i] \in Commands

\* In the middle of a scan that has not ended, expanded functions have
\* filled the buffer to its last byte, over what an earlier build left.
C14_Witness ==
    /\ pc = "scan"
    /\ terminated = 0
    /\ current_element = PRIMO_NRF24L01_MAX_PACKET_SIZE
    /\ packet[31] = PRIMO_COMMAND_RIGHT
    /\ \A i \in CommandRegion : packet[i] \in Commands

\* C15 (write bounds): during the build of a frame every store
\* packet[current_element++] = v is at an index in 8..31: no store of the
\* build falls outside the 32-byte buffer.
C15_WriteBounds ==
    /\ DOMAIN oob = {}
    /\ (pc \in { "scan", "pad" }) =>
          current_element \in FirstMovementElement..PRIMO_NRF24L01_MAX_PACKET_SIZE

\* How many bytes of the command region of frame f hold a command of cs.
CountOf(f, cs) == Cardinality({ i \in CommandRegion : f[i] \in cs })

\* C16 (replay matches the frame): when the replay phase of a gesture is
\* over, the delays it has issued sum to 4500 ms for every Forward byte and
\* 3000 ms for every Left or Right byte of the frame just sent, and to
\* nothing more: no delay for a slot that put no command in the frame and
\* none carried over from an earlier slot or gesture.
C16_ReplayMatchesFrame ==
    (pc = "loop" /\ Len(sent) = 2) =>
        delayed = (ForwardDelay * CountOf(sent[2], { PRIMO_COMMAND_FORWARD }))
                  + (TurnDelay * CountOf(sent[2], { PRIMO_COMMAND_LEFT,
                                                    PRIMO_COMMAND_RIGHT }))

\* Port words in which slot 7, a slot of the inverted row that is not
\* twisted, holds code c and every other slot holds nothing.
CodeAtSlot7(c) == [g \in 1..4 |-> IF g = 2 THEN c * 256 ELSE 0]

\* C17 (twist correction): for slot 8 and every raw code c, check_button
\* returns what it returns for slot 7, inverted and not twisted, on the code
\* that keeps bit 0 of c and exchanges its bits 1 and 2; the correction
\* the code applies is that exchange, it maps 0..7 onto 0..7 one to one,
\* and applied twice it gives c back.
C17_TwistCorrection ==
    /\ (pc = "returned" /\ arg = 8) =>
          /\ ret = check_button(7, CodeAtSlot7(SwapTable[OwnCode(8) + 1]))
          /\ ret = InvertedTable[SwapTable[OwnCode(8) + 1] + 1]
    /\ \A c \in 0..7 :
          /\ Untwist(c) = SwapTable[c + 1]
          /\ Untwist(Untwist(c)) = c
    /\ { Untwist(c) : c \in 0..7 } = 0..7

\* Slot 8 has been decoded with raw code 5, which the exchange turns into
\* 3: Right, where raw code 5 in slot 7 is Left.
C17_Witness ==
    /\ pc = "returned"
    /\ arg = 8
    /\ OwnCode(8) = 5
    /\ ret = PRIMO_MAGNET_RIGHT
    /\ check_button(7, CodeAtSlot7(5)) = PRIMO_MAGNET_LEFT

\* Port words that agree with the ones read on the low three bits of the
\* nibble of slot a and hold 0 in every other bit of every port.
OwnBitsOnly(a) ==
    [g \in 1..4 |->
        IF a \in 1..16 /\ g = ((a - 1) \div 4) + 1
        THEN OwnCode(a) * Pow(16, (a - 1) % 4)
        ELSE 0]

\* C18 (decode locality): for every slot s in 1..16 what check_button(s)
\* returns is what it returns when only the low three bits of the nibble
\* of slot s are kept and bit 3 of that nibble, the three other nibbles of
\* that port and the three other ports all read 0: the result depends on
\* those three bits alone.
C18_DecodeLocality ==
    (pc = "returned" /\ arg \in 1..16) =>
        ret = check_button(arg, OwnBitsOnly(arg))

\* Slot 3 has been decoded as Forward from a nibble with bit 3 set, in a
\* port whose other nibbles are not empty and with other ports that read
\* something else.
C18_Witness ==
    /\ pc = "returned"
    /\ arg = 3
    /\ Nibble(port[1], 8) = 11
    /\ Nibble(port[1], 0) # 0
    /\ port[2] # port[1]
    /\ port[2] # 0
    /\ ret = PRIMO_MAGNET_FORWARD

\* C19 (interrupt non-interference): wherever the handler runs between two
\* steps of the main program, its step leaves the main program's position
\* and variables, the frame buffer and the frames handed to the radio as
\* they are, so the main program builds and sends what it builds and sends
\* with no event at all: every frame handed to the radio is the buffer as
\* the build left it; and ackMessageCount is changed by handler steps only,
\* never by a step of the main program.
C19_NonInterference ==
    /\ [] (\A n \in 1..Len(sent) : sent[n] = FrameOf(packet))
    /\ [][ /\ (event' # {}) =>
                 UNCHANGED << pc, PIND0, port, packet, oob, primo_random,
                              current_element, terminated, button,
                              led_fn_terminate, movement_delay, delayed, sent >>
           /\ (event' = {}) => ackMessageCount' = ackMessageCount
           /\ (ackMessageCount' # ackMessageCount) => HandlerCalled(calls', "read")
         ]_vars

\* The handler has just run between the two sends, on the completion of
\* the first with an acknowledgement payload: the frame handed over is
\* still the buffer, and the second send is still to come.
C19_Witness ==
    /\ pc = "send2"
    /\ event = { "tx", "rx" }
    /\ ackMessageCount = MaxAck
    /\ Len(sent) = 1
    /\ sent[1] = FrameOf(packet)

\* C20 (no power-down under a pending send): when the handler has called
\* radio.powerDown(), no frame handed to the radio is still waiting for its
\* sent/failed event; the event of the first of the two sends does not
\* power the radio down while the second is with the radio.
C20_NoPowerDownWhilePending ==
    HandlerCalled(calls, "powerDown") => pending = 0

\* The number of steps loop() still has to take before it waits for the
\* next press of the user-button.
StepsLeft ==
    CASE pc = "wait_release" -> PRIMO_MAX_BUTTON + ReplayMaxButton + 5
      [] pc = "scan"         -> (PRIMO_MAX_BUTTON + 1 - button) + ReplayMaxButton + 4
      [] pc = "pad"          -> ReplayMaxButton + 4
      [] pc = "send1"        -> ReplayMaxButton + 3
      [] pc = "send2"        -> ReplayMaxButton + 2
      [] pc = "replay"       -> (ReplayMaxButton + 1 - button) + 1
      [] pc = "loop"         -> 1
      [] OTHER               -> 0

\* C21 (fire-and-forget progress): once the user-button is released the
\* main program gets back to waiting for the next press, whatever the slot
\* readings are and even if the radio never raises its interrupt; and it
\* does so in a bounded number of steps: every step it takes on the way
\* brings the count of steps left (at most 45) down by one, so none of them
\* waits for anything.
C21_Progress ==
    /\ (pc = "wait_release" /\ PIND0 = 1) ~> (pc = "wait_press")
    /\ [][ (event' = {} /\ pc \notin { "setup", "wait_press" }
                        /\ ~(pc = "wait_release" /\ PIND0 = 0))
              => StepsLeft' = StepsLeft - 1 ]_vars

\* The program is waiting for the next press after a whole gesture during
\* which the radio has reported on neither frame: both are still with the
\* radio, which is still powered.
C21_Witness ==
    /\ pc = "wait_press"
    /\ PIND0 = 1
    /\ pending = 2
    /\ powered
    /\ event = {}
    /\ ackMessageCount = 0
    /\ oob = << >>

\* C22 (no decode after termination): once terminated is set in a build,
\* every later iteration of the scan stores one Stop at current_element and
\* does nothing else: terminated stays set, no other byte changes, and the
\* outcome is the same whatever the ports would read, so no slot is read
\* or decoded for the rest of the build.
C22_NoDecodeAfterTermination ==
    [][ (pc = "scan" /\ terminated # 0 /\ event' = {}) =>
          /\ terminated' = terminated
          /\ current_element' = current_element + 1
          /\ StoredAt(packet', oob', current_element) = PRIMO_COMMAND_STOP
          /\ \A i \in DOMAIN packet :
                i # current_element => packet'[i] = packet[i]
          /\ \A i \in DOMAIN oob :
                i # current_element => (i \in DOMAIN oob' /\ oob'[i] = oob[i])
          /\ \A hall \in Boards :
                ScanButton(Builder, button, hall)
                   = ScanButton(Builder, button, port) ]_vars

\* F in slot 1, slot 2 empty, Left in slot 3: the scan has passed slot 3
\* and stored a Stop for it.
C22_Witness ==
    /\ pc = "scan"
    /\ terminated = 1
    /\ button = 4
    /\ check_button(2, port) = PRIMO_MAGNET_NONE
    /\ check_button(3, port) = PRIMO_MAGNET_LEFT
    /\ current_element = 10
    /\ packet[8] = PRIMO_COMMAND_FORWARD
    /\ packet[9] = PRIMO_COMMAND_STOP
====
